---- MODULE Spec2Model ----
(***************************************************************************)
(* Tenant isolation and capability-based authorization core of the        *)
(* NestJS multi-tenant backend: the request pipeline (JwtAuthGuard ->     *)
(* PoliciesGuard -> TenantInterceptor -> ValidationPipe -> service        *)
(* method -> flush), the request-scoped CLS store and EntityManager       *)
(* context, the tenant stamping hook, the CASL ability factory and the    *)
(* policy evaluator.                                                      *)
(***************************************************************************)
EXTENDS Integers, Sequences, FiniteSets, TLC

\* ------------------------------------------------------------------ bounds
\* Number of requests that arrive in one run.
MaxRequests == 2

\* Request slots that may be in flight at the same time.
Req == {1, 2}

TenantIds == {"T1", "T2"}
NoTenant == "none"

\* Ids a request path may carry (records 1 and 2 exist at start, 3 is free).
ParamIds == {1, 2, 3}
\* User ids a bearer token's payload.sub may carry (users 1 and 2 exist at
\* start, 3 never does).
Subs == {1, 2, 3}
\* Values a request body may carry for tenant: absent, or tenant T2 (another
\* tenant for a caller of T1, the caller's own for a caller of T2).
BodyTenants == {"none", "T2"}
\* Values a request body may carry for name / username; "none" = field absent.
Names == {"b", "c"}
NoName == "none"
\* Raw tenant labels a CreateUserDto may carry for domain: one that collides
\* with tenant T1 once normalized, one that is free.
Labels == {"t1", "acme"}
\* tenantConfig.domain (process.env.TENANT_DOMAIN): the root domain.
RootDomain == "example.com"
\* Primary keys the tenant table hands out, in order.
TenantKeys == << "T1", "T2", "T3", "T4", "T5", "T6" >>
\* Usernames a login may present: an existing one and an unknown one.
\* E-mail addresses a creation request may carry; "e1" is taken at the start.
Emails == {"e1", "e2"}
\* The password of a creation request and the one of an update request.
CreatePassword == "secret1"
UpdatePasswords == {"none", "secret2"}
\* What a creation body may carry under the key role.
BodyRoles == {"none", "admin"}

\* Passwords a login request may carry.
LoginPasswords == {"secret0", "secret2"}

LoginNames == {"a", "c"}

\* ------------------------------------------------------- primitive values
\* CustomBaseEntity.id is declared `number` but mapped with
\* BigIntType('bigint'): a hydrated entity carries a JS bigint.
BigIntType(n) == <<"bigint", n>>
\* parseInt(x) and unary plus yield a JS number.
parseInt(n) == <<"number", n>>
\* JS === on primitives: equal only when type and value agree.
StrictEquals(a, b) == a[1] = b[1] /\ a[2] = b[2]
\* The database compares the numeric value, whatever the JS representation.
ToDatabaseValue(v) == v[2]

\* ------------------------------------------------------------ route table
Routes == {"POST /organizations", "GET /organizations",
           "GET /organizations/:id", "PATCH /organizations/:id",
           "DELETE /organizations/:id", "GET /users", "GET /users/:id",
           "PATCH /users/:id", "DELETE /users/:id", "GET /auth/profile",
           "POST /users", "POST /auth/register", "POST /auth/login"}

\* Routes whose handler is UsersService.create.
CreatesUser(route) == route \in {"POST /users", "POST /auth/register"}

\* No route is treated as public.
IsPublicNever(route) == FALSE

\* Routes carrying @Public() metadata.
IsPublic(route) == route \in {"POST /auth/login", "POST /auth/register"}

HasParam(route) == route \in {"GET /organizations/:id",
    "PATCH /organizations/:id", "DELETE /organizations/:id",
    "GET /users/:id", "PATCH /users/:id", "DELETE /users/:id"}

HasBody(route) == route \in {"POST /organizations",
    "PATCH /organizations/:id", "PATCH /users/:id", "POST /users",
    "POST /auth/register"}

\* Entity type a route works on.
RouteEntity(route) ==
    IF route \in {"GET /users", "GET /users/:id", "PATCH /users/:id",
                  "DELETE /users/:id", "GET /auth/profile", "POST /users",
                  "POST /auth/register", "POST /auth/login"}
    THEN "User" ELSE "Organization"

\* tenantConfig.entities: the tenant-owned entity types.
tenantConfigEntities == {"User", "Organization"}

\* ------------------------------------------------------ roles, permissions
Permission(action, subject) == [action |-> action, subject |-> subject]

\* role.permissions of each role: 'admin' and 'user' as the init-data
\* migration inserts them, 'manager' an operator-defined role.
RolePermissions(role) ==
    CASE role = "admin" ->
           << Permission("create", "User"), Permission("read", "User"),
              Permission("update", "User"), Permission("delete", "User"),
              Permission("create", "Organization"),
              Permission("read", "Organization"),
              Permission("update", "Organization"),
              Permission("delete", "Organization") >>
      [] role = "user" ->
           << Permission("read", "User"), Permission("read", "Organization") >>
      [] role = "manager" ->
           << Permission("manage", "User"), Permission("manage", "Organization") >>
      [] OTHER -> << >>

\* ------------------------------------------------- ability factory (CASL)
\* A factory that maps only the first permission of the role.
createForUserFirstOnly(user) ==
    [i \in 1..(IF Len(user.role.permissions) = 0 THEN 0 ELSE 1) |->
        [action |-> user.role.permissions[i].action,
         subject |-> user.role.permissions[i].subject]]

\* CaslAbilityFactory.createForUser: one raw rule per permission of the role.
createForUser(user) ==
    [i \in 1..Len(user.role.permissions) |->
        [action |-> user.role.permissions[i].action,
         subject |-> user.role.permissions[i].subject]]

\* A rule of a MongoAbility is relevant to (action, subject) when its action
\* is the action or 'manage' and its subject is the subject or 'all'.
RuleMatches(rule, action, subject) ==
    /\ rule.action = action \/ rule.action = "manage"
    /\ rule.subject = subject \/ rule.subject = "all"

\* ability.can(action, subject): no rule is inverted, so a relevant rule grants.
Can(ability, action, subject) ==
    \E i \in 1..Len(ability) : RuleMatches(ability[i], action, subject)

\* ---------------------------------------------------------------- policies
ReadUserPolicy_handle(ability, user, request) ==
    \/ Can(ability, "readAny", "User")
    \/ /\ Can(ability, "readOwn", "User")
       /\ StrictEquals(user.id, parseInt(request.params.id))

DeleteOrganizationPolicyHandler_handle(ability) ==
    Can(ability, "delete", "Organization")

ReadAnyOrganizationPolicyHandler_handle(ability) ==
    Can(ability, "readAny", "Organization")

\* The body of a policy handler.  "permit" and "deny" are handlers with a
\* fixed verdict.
PolicyBody(policy, ability, user, request) ==
    CASE policy = "ReadUserPolicy" -> ReadUserPolicy_handle(ability, user, request)
      [] policy = "DeleteOrganizationPolicyHandler" ->
             DeleteOrganizationPolicyHandler_handle(ability)
      [] policy = "ReadAnyOrganizationPolicyHandler" ->
             ReadAnyOrganizationPolicyHandler_handle(ability)
      [] policy = "permit" -> TRUE
      [] OTHER -> FALSE

\* PoliciesGuard.execPolicyHandler: a function is called, an object's
\* handle method is called.
execPolicyHandler(handler, ability, user, request) ==
    IF handler.kind = "function"
    THEN PolicyBody(handler.policy, ability, user, request)
    ELSE PolicyBody(handler.policy, ability, user, request)

\* A guard that is satisfied by one permitting handler (some instead of every).
canActivateSome(policyHandlers, user, request) ==
    LET ability == createForUser(user)
    IN  \E i \in 1..Len(policyHandlers) :
            execPolicyHandler(policyHandlers[i], ability, user, request)

\* PoliciesGuard.canActivate on the handlers the reflector returned
\* (policyHandlers.every(...)).
canActivate(policyHandlers, user, request) ==
    LET ability == createForUser(user)
    IN  \A i \in 1..Len(policyHandlers) :
            execPolicyHandler(policyHandlers[i], ability, user, request)

Handler(policy) == [kind |-> "object", policy |-> policy]

\* this.reflector.get(CHECK_POLICIES_KEY, context.getHandler()) || []: the
\* metadata set on the route handler; what @CheckPolicies set on the
\* controller class is not looked at.
reflector_get(handlerMetadata, classMetadata) == handlerMetadata

\* Routes decorated with @UseGuards(PoliciesGuard).
UsesPoliciesGuard(route) ==
    route \notin {"POST /organizations", "GET /auth/profile", "POST /users",
                  "POST /auth/register", "POST /auth/login"}

\* @CheckPolicies(...) metadata of a route handler.  The policy classes whose
\* source is not available have an unknown verdict: `verdict` stands for it.
CheckPolicies(route, verdict) ==
    CASE route = "GET /users/:id" -> << Handler("ReadUserPolicy") >>
      [] route = "GET /organizations" -> << Handler("ReadAnyOrganizationPolicyHandler") >>
      [] route = "DELETE /organizations/:id" ->
             << Handler("DeleteOrganizationPolicyHandler") >>
      [] route \in {"GET /users", "PATCH /users/:id", "DELETE /users/:id",
                    "GET /organizations/:id", "PATCH /organizations/:id"} ->
             << Handler(IF verdict THEN "permit" ELSE "deny") >>
      [] OTHER -> << >>

\* ------------------------------------------------------------------- state
VARIABLES
    users,        \* table user: id -> [username, tenant, role]
    tenants,      \* table tenant: id -> [domain]
    nextUserId,   \* auto-increment of table user
    roles,        \* table role: the names of the stored roles
    nextTenantId, \* auto-increment of table tenant (index into TenantKeys)
    orgs,         \* table organization: id -> [name, tenant]
    nextOrgId,    \* auto-increment of table organization
    started,      \* requests arrived so far
    pc,           \* request slot -> pipeline position
    request,      \* request slot -> [route, params, body]
    reqUser,      \* request slot -> request.user
    cls,          \* request slot -> the CLS store of the request's async context
    em,           \* EntityManager contexts: Root and one fork per request
    found,        \* request slot -> entities the request's last query returned
    pending,      \* request slot -> unit of work awaiting flush
    outcome,      \* request slot -> how the request ended
    result,       \* request slot -> entities in the response body
    targetOwner,  \* request slot -> owner of params.id when the handler queried
    writers,      \* history: tenants of the principals whose update or remove
                  \*   has been flushed
    skipTenantRoutes, \* routes carrying @SkipTenant() metadata
    abPc,         \* authorization check in isolation: position
    abUser,       \*   the principal: id and role with its permissions
    abRequest,    \*   the inbound request
    abHandlers,   \*   the policy handlers declared for the route handler
    abClassHandlers, \* the policy handlers declared for the controller class
    abAbility,    \*   the ability createForUser built
    abRead,       \*   what ReadUserPolicy.handle returned
    abGuard       \*   what PoliciesGuard.canActivate returned

abVars == << abPc, abUser, abRequest, abHandlers, abClassHandlers, abAbility,
            abRead, abGuard >>

vars == << roles, users, tenants, nextUserId, nextTenantId, orgs, nextOrgId, started, pc, request, reqUser, cls, em,
           found, pending, outcome, result, targetOwner, writers, skipTenantRoutes,
           abVars >>

dbVars == << roles, users, tenants, nextUserId, nextTenantId, orgs, nextOrgId >>

\* The skip-tenant metadata is ignored.
ShouldSkipTenantNever(route) == FALSE

\* Routes carrying @SkipTenant() metadata.
ShouldSkipTenant(route) == route \in skipTenantRoutes

NoBody == [name |-> NoName, tenant |-> NoTenant, domain |-> NoName,
           email |-> NoName, password |-> NoName, role |-> "none"]
NoRequest == [route |-> "none", sub |-> 0, params |-> [id |-> 0], body |-> NoBody]
NoUser == [present |-> FALSE, type |-> "User", id |-> parseInt(0),
           username |-> NoName, password |-> << "none", NoName >>,
           tenant |-> NoTenant,
           role |-> [name |-> "none", permissions |-> << >>]]
NoPending == [op |-> "none", entityName |-> "none", id |-> 0, data |-> NoBody]
\* An async context in which nothing has been stored.
EmptyStore == [tenant |-> NoTenant, writes |-> 0]
\* The context of the root (global) EntityManager among the request slots.
Root == 0
\* An EntityManager context with no filter registered.
NoFilter == [entities |-> {}, tenantId |-> NoTenant, installs |-> 0]

\* ------------------------------------------------- CLS (nestjs-cls) store
\* ClsMiddleware (ClsModule.forRoot, middleware.mount): every request runs in
\* an async context with a store of its own.
ClsRun(store, r) == [store EXCEPT ![r] = EmptyStore]

\* A store shared by the whole process: a write reaches every request.
ClsSetProcessWide(store, r, value) ==
    [q \in DOMAIN store |-> [tenant |-> value, writes |-> store[q].writes + 1]]

\* cls.set('tenant', value) executed in the async context of request r.
ClsSet(store, r, value) ==
    [store EXCEPT ![r] = [tenant |-> value, writes |-> @.writes + 1]]

\* A read that is not bound to the async context: it returns the tenant of
\* the latest request slot that holds one.
ClsGetProcessWide(store, r) ==
    LET holders == { q \in DOMAIN store : store[q].writes > 0 }
    IN  IF holders = {} THEN NoTenant
        ELSE store[CHOOSE q \in holders : \A h \in holders : q >= h].tenant

\* cls.get('tenant') executed in the async context of request r.
ClsGet(store, r) == store[r].tenant

\* ------------------------------------------- EntityManager (MikroORM)
\* MikroOrmModule registers the request-context middleware: each request gets
\* a fork of the root EntityManager, which starts with the root's filters.
RequestContextCreate(ctxs, r) == [ctxs EXCEPT ![r] = ctxs[Root]]

\* A filter registration that is lost.
addFilterDropped(ctxs, r, entities) == ctxs

\* em.addFilter('tenant', cond, entities) called through the injected
\* EntityManager inside request r: it acts on the request's context.
addFilter(ctxs, r, entities) ==
    [ctxs EXCEPT ![r].entities = entities, ![r].installs = @ + 1]

\* Filter parameters kept once for the whole EntityManager: setting them in
\* one request sets them for every context.
setFilterParamsGlobal(ctxs, r, tenantId) ==
    [c \in DOMAIN ctxs |-> [ctxs[c] EXCEPT !.tenantId = tenantId]]

\* em.setFilterParams('tenant', { tenantId }) inside request r.
setFilterParams(ctxs, r, tenantId) == [ctxs EXCEPT ![r].tenantId = tenantId]

\* A filter condition that restricts nothing.
FilterAllowsEverything(ctx, entityName, row) == TRUE

\* The 'tenant' filter condition (args) => ({ tenant: args.tenantId }),
\* conjoined to every query on an entity type the filter is registered for.
FilterAllows(ctx, entityName, row) ==
    entityName \in ctx.entities => row.tenant = ctx.tenantId

Table(entityName) == IF entityName = "User" THEN users ELSE orgs

\* A row as the entity the ORM hands to the application; a user comes with
\* its role and the role's permissions populated.
Hydrate(entityName, id) ==
    IF entityName = "User"
    THEN [present |-> TRUE, type |-> "User", id |-> BigIntType(id),
          username |-> users[id].username, password |-> users[id].password,
          tenant |-> users[id].tenant,
          role |-> [name |-> users[id].role,
                    permissions |-> RolePermissions(users[id].role)]]
    ELSE [type |-> "Organization", id |-> BigIntType(id),
          name |-> orgs[id].name, tenant |-> orgs[id].tenant]

\* repo.findAll() in context ctx.
findAll(entityName, ctx) ==
    { Hydrate(entityName, id) :
        id \in { i \in DOMAIN Table(entityName) :
                   FilterAllows(ctx, entityName, Table(entityName)[i]) } }

\* A lookup by primary key that bypasses the filters.
findOneUnfiltered(entityName, ctx, id) ==
    { Hydrate(entityName, i) :
        i \in { j \in DOMAIN Table(entityName) : j = ToDatabaseValue(id) } }

\* repo.findOne(id) in context ctx: the empty set stands for null.
findOne(entityName, ctx, id) ==
    { e \in findAll(entityName, ctx) : ToDatabaseValue(e.id) = ToDatabaseValue(id) }

\* repo.findOne({ [column]: value }) in context ctx.
findOneBy(entityName, ctx, value) ==
    { e \in findAll(entityName, ctx) :
        IF entityName = "User" THEN e.username = value ELSE e.name = value }

\* IsUnique.validate: the value is accepted when no row carries it.
IsUnique_validate(entityName, ctx, value) == findOneBy(entityName, ctx, value) = {}

\* IsUnique.validate with the constraints ['User', 'email'].
IsUnique_validateEmail(ctx, value) ==
    ~\E i \in DOMAIN users :
        FilterAllows(ctx, "User", users[i]) /\ users[i].email = value

\* Owner of row id, whatever filter is in force ("absent": no such row).
OwnerOf(entityName, id) ==
    IF id \in DOMAIN Table(entityName) THEN Table(entityName)[id].tenant ELSE "absent"

\* Names of the rows of table role.
RoleNames == {"admin", "user", "manager"}

\* A password column that keeps what it was given.
bcrypt_hashIdentity(password) == << "plain", password >>

\* bcrypt.hash(password, 10): the stored value is a hash that
\* bcrypt.compare matches with exactly this password; the salt is left out.
bcrypt_hash(password) == << "bcrypt", password >>

\* bcrypt.compare(password, stored) in AuthService.validateUser: true only
\* for a stored bcrypt hash of this password.
bcrypt_compare(password, stored) == stored = << "bcrypt", password >>

\* -------------------------------------------------------------------- Init
\* Two tenants, each with one user and one organization; no request yet.
InitialUsers ==
    (1 :> [username |-> "a", email |-> "e0", password |-> bcrypt_hash("secret0"),
           tenant |-> "T1", role |-> "manager"]) @@
    (2 :> [username |-> "b", email |-> "e1", password |-> bcrypt_hash("secret0"),
           tenant |-> "T2", role |-> "admin"])

InitialTenants ==
    ("T1" :> [domain |-> << "t1", RootDomain >>]) @@
    ("T2" :> [domain |-> << "t2", RootDomain >>])

InitialOrgs ==
    (1 :> [name |-> "a", tenant |-> "T1"]) @@
    (2 :> [name |-> "b", tenant |-> "T2"])

InitPipeline ==
    /\ users = InitialUsers
    /\ tenants = InitialTenants
    /\ nextUserId = 3
    /\ nextTenantId = 3
    /\ orgs = InitialOrgs
    /\ nextOrgId = 3
    /\ started = 0
    /\ pc = [r \in Req |-> "idle"]
    /\ request = [r \in Req |-> NoRequest]
    /\ reqUser = [r \in Req |-> NoUser]
    /\ cls = [r \in Req |-> EmptyStore]
    /\ em = [c \in Req \cup {Root} |-> NoFilter]
    /\ found = [r \in Req |-> {}]
    /\ pending = [r \in Req |-> NoPending]
    /\ outcome = [r \in Req |-> "none"]
    /\ result = [r \in Req |-> {}]
    /\ targetOwner = [r \in Req |-> "none"]
    /\ writers = {}

\* The @SkipTenant() decorator is applied to no route handler.
Init ==
    /\ InitPipeline
    /\ roles = RoleNames
    /\ skipTenantRoutes = {}
    /\ abPc = "off"
    /\ abUser = NoUser
    /\ abRequest = NoRequest
    /\ abHandlers = << >>
    /\ abClassHandlers = << >>
    /\ abAbility = << >>
    /\ abRead = FALSE
    /\ abGuard = FALSE

\* ----------------------------------------------------------------- pipeline
\* One Node.js process serves all requests: code between two awaits on I/O
\* runs to completion.  A request at one of these positions is in the middle
\* of such a run (the guards and the interceptor after the principal lookup
\* returned, a pipe without a body to validate, the sending of the response);
\* at every other position it waits for the database or for the socket.
Running(q) ==
    \/ pc[q] \in {"guard", "policies", "intercept", "done"}
    \/ pc[q] = "pipe" /\ ~HasBody(request[q].route)

\* Request r may take a step: no other request is in the middle of a run.
Turn(r) == \A q \in Req \ {r} : ~Running(q)

\* A request arrives and takes the lowest free slot: the middlewares open
\* its CLS context and fork the EntityManager for it.
Arrive(r) ==
    /\ pc[r] = "idle"
    /\ Turn(r)
    /\ \A q \in Req : q < r => pc[q] # "idle"
    /\ started < MaxRequests
    /\ \E route \in Routes, id \in ParamIds :
          /\ ~HasParam(route) => id = 1
          /\ request' = [request EXCEPT ![r] =
                 [route |-> route, sub |-> 0,
                  params |-> [id |-> IF HasParam(route) THEN id ELSE 0],
                  body |-> NoBody]]
    /\ started' = started + 1
    /\ cls' = ClsRun(cls, r)
    /\ em' = RequestContextCreate(em, r)
    /\ pc' = [pc EXCEPT ![r] = "guard"]
    /\ UNCHANGED << skipTenantRoutes, abVars, writers, dbVars, reqUser, found, pending, outcome, result, targetOwner >>

\* JwtAuthGuard.canActivate: a public route passes; a request without a
\* verifiable bearer token is rejected; otherwise JwtStrategy.validate is
\* called with the token's payload and awaits its user lookup.
JwtAuthGuard_canActivate(r) ==
    /\ pc[r] = "guard"
    /\ Turn(r)
    /\ \E sub \in Subs \cup {0} :
         IF IsPublic(request[r].route)
         THEN /\ pc' = [pc EXCEPT ![r] =
                        IF request[r].route = "POST /auth/login"
                        THEN "local" ELSE "policies"]
              /\ UNCHANGED << outcome, request >>
         ELSE IF sub = 0
         THEN /\ pc' = [pc EXCEPT ![r] = "done"]
              /\ outcome' = [outcome EXCEPT ![r] = "Unauthorized"]
              /\ UNCHANGED request
         ELSE /\ pc' = [pc EXCEPT ![r] = "validate"]
              /\ request' = [request EXCEPT ![r].sub = sub]
              /\ UNCHANGED outcome
    /\ UNCHANGED << skipTenantRoutes, abVars, writers, dbVars, started, reqUser, cls, em,
                    found, pending, result, targetOwner >>

\* A strategy that lets a request through when the lookup returns null.
JwtStrategy_validateLenient(r) ==
    /\ pc[r] = "validate"
    /\ Turn(r)
    /\ LET lookup == findOne("User", em[r], parseInt(request[r].sub))
       IN  IF lookup = {}
           THEN UNCHANGED << cls, reqUser >>
           ELSE LET user == CHOOSE u \in lookup : TRUE
                IN  /\ cls' = ClsSet(cls, r, user.tenant)
                    /\ reqUser' = [reqUser EXCEPT ![r] = user]
    /\ pc' = [pc EXCEPT ![r] = "policies"]
    /\ UNCHANGED << skipTenantRoutes, abVars, writers, dbVars, started, request, em,
                    found, pending, result, targetOwner, outcome >>

\* JwtStrategy.validate(payload): usersService.findOne({ id: payload.sub })
\* returns; a found user has its tenant written to the CLS store and becomes
\* request.user; null is rejected by the guard.
JwtStrategy_validate(r) ==
    /\ pc[r] = "validate"
    /\ Turn(r)
    /\ LET lookup == findOne("User", em[r], parseInt(request[r].sub))
         IN  IF lookup = {}
             THEN /\ pc' = [pc EXCEPT ![r] = "done"]
                  /\ outcome' = [outcome EXCEPT ![r] = "Unauthorized"]
                  /\ UNCHANGED << cls, reqUser >>
             ELSE LET user == CHOOSE u \in lookup : TRUE
                  IN  /\ cls' = ClsSet(cls, r, user.tenant)
                      /\ reqUser' = [reqUser EXCEPT ![r] = user]
                      /\ pc' = [pc EXCEPT ![r] = "policies"]
                      /\ UNCHANGED outcome
    /\ UNCHANGED << skipTenantRoutes, abVars, writers, dbVars, started, request, em, found, pending, result,
                    targetOwner >>

\* LocalAuthGuard on POST /auth/login: LocalStrategy.validate calls
\* AuthService.validateUser(username, password), which looks the user up by
\* username and compares the password; the user becomes request.user.
LocalAuthGuard_canActivate(r) ==
    /\ pc[r] = "local"
    /\ Turn(r)
    /\ \E username \in LoginNames, password \in LoginPasswords :
         LET lookup == findOneBy("User", em[r], username)
             isPasswordMatched ==
                 \E u \in lookup : bcrypt_compare(password, u.password)
         IN  IF lookup = {}
             THEN /\ pc' = [pc EXCEPT ![r] = "done"]
                  /\ outcome' = [outcome EXCEPT ![r] = "BadRequest"]
                  /\ UNCHANGED reqUser
             ELSE IF ~isPasswordMatched
             THEN /\ pc' = [pc EXCEPT ![r] = "done"]
                  /\ outcome' = [outcome EXCEPT ![r] = "Unauthorized: wrong password"]
                  /\ UNCHANGED reqUser
             ELSE /\ reqUser' = [reqUser EXCEPT ![r] = CHOOSE u \in lookup : TRUE]
                  /\ pc' = [pc EXCEPT ![r] = "intercept"]
                  /\ UNCHANGED outcome
    /\ UNCHANGED << skipTenantRoutes, abVars, writers, dbVars, started, request, cls, em,
                    found, pending, result, targetOwner >>

\* PoliciesGuard.canActivate on a route that uses the guard.
PoliciesGuard_canActivate(r) ==
    /\ pc[r] = "policies"
    /\ Turn(r)
    /\ IF ~UsesPoliciesGuard(request[r].route)
       THEN /\ pc' = [pc EXCEPT ![r] = "intercept"]
            /\ UNCHANGED outcome
       ELSE \E verdict \in BOOLEAN :
              IF canActivate(CheckPolicies(request[r].route, verdict),
                             reqUser[r], request[r])
              THEN /\ pc' = [pc EXCEPT ![r] = "intercept"]
                   /\ UNCHANGED outcome
              ELSE /\ pc' = [pc EXCEPT ![r] = "done"]
                   /\ outcome' = [outcome EXCEPT ![r] = "Forbidden"]
    /\ UNCHANGED << skipTenantRoutes, abVars, writers, dbVars, started, request, reqUser, cls, em, found, pending,
                    result, targetOwner >>

\* An interceptor that hands every request on without installing a filter.
TenantInterceptor_interceptPassThrough(r) ==
    /\ pc[r] = "intercept"
    /\ Turn(r)
    /\ pc' = [pc EXCEPT ![r] = "pipe"]
    /\ UNCHANGED << skipTenantRoutes, abVars, writers, dbVars, started, request,
                    reqUser, cls, em, outcome, found, pending, result, targetOwner >>

\* TenantInterceptor.intercept.
TenantInterceptor_intercept(r) ==
    /\ pc[r] = "intercept"
    /\ Turn(r)
    /\ IF IsPublic(request[r].route) \/ ShouldSkipTenant(request[r].route)
       THEN /\ pc' = [pc EXCEPT ![r] = "pipe"]
            /\ UNCHANGED << em, outcome >>
       ELSE IF ~reqUser[r].present
       THEN /\ pc' = [pc EXCEPT ![r] = "done"]
            /\ outcome' = [outcome EXCEPT ![r] = "InternalServerError: User not found"]
            /\ UNCHANGED em
       ELSE IF reqUser[r].tenant = NoTenant
       THEN /\ pc' = [pc EXCEPT ![r] = "done"]
            /\ outcome' = [outcome EXCEPT ![r] = "InternalServerError: Tenant not found"]
            /\ UNCHANGED em
       ELSE /\ em' = setFilterParams(addFilter(em, r, tenantConfigEntities),
                                     r, reqUser[r].tenant)
            /\ pc' = [pc EXCEPT ![r] = "pipe"]
            /\ UNCHANGED outcome
    /\ UNCHANGED << skipTenantRoutes, abVars, writers, dbVars, started, request, reqUser, cls, found, pending,
                    result, targetOwner >>

\* Bodies a client may send to a route: PATCH bodies may omit the name; any
\* body may carry a tenant property (the ValidationPipe does not whitelist).
Bodies(route) ==
    IF CreatesUser(route)
    THEN [name : Names, tenant : BodyTenants, domain : Labels,
          email : Emails, password : {CreatePassword}, role : BodyRoles]
    ELSE [name : IF route = "POST /organizations" THEN Names
                 ELSE Names \cup {NoName},
          tenant : BodyTenants, domain : {NoName}, email : {NoName},
          password : IF route = "PATCH /users/:id" THEN UpdatePasswords
                     ELSE {NoName},
          role : {"none"}]

\* ValidationPipe on the @Body() DTO: @Validate(IsUnique, ...) on name
\* (Organization) or username (User); an absent optional field is skipped.
\* CreateUserDto.domain is validated by IsDomainUnique, whose verdict is
\* not determined here.
ValidationPipe_transform(r) ==
    /\ pc[r] = "pipe"
    /\ Turn(r)
    /\ IF ~HasBody(request[r].route)
       THEN /\ pc' = [pc EXCEPT ![r] = "handler"]
            /\ UNCHANGED << request, outcome >>
       ELSE \E body \in Bodies(request[r].route), isDomainUnique \in BOOLEAN :
              /\ request' = [request EXCEPT ![r].body = body]
              /\ body.domain = NoName => isDomainUnique
              /\ IF /\ \/ body.name = NoName
                       \/ IsUnique_validate(RouteEntity(request[r].route), em[r], body.name)
                    /\ \/ body.email = NoName
                       \/ IsUnique_validateEmail(em[r], body.email)
                    /\ isDomainUnique
                 THEN /\ pc' = [pc EXCEPT ![r] = "handler"]
                      /\ UNCHANGED outcome
                 ELSE /\ pc' = [pc EXCEPT ![r] = "done"]
                      /\ outcome' = [outcome EXCEPT ![r] = "BadRequest"]
    /\ UNCHANGED << skipTenantRoutes, abVars, writers, dbVars, started, reqUser, cls, em, found, pending, result,
                    targetOwner >>

\* ----------------------------------------------------------------- services
\* The request ends with a response.
Respond(r, how, entities) ==
    /\ pc' = [pc EXCEPT ![r] = "done"]
    /\ outcome' = [outcome EXCEPT ![r] = how]
    /\ result' = [result EXCEPT ![r] = entities]

\* A service method has looked an entity up and awaits em.flush().
AwaitFlush(r, op, entityName, id) ==
    /\ pc' = [pc EXCEPT ![r] = "flush"]
    /\ pending' = [pending EXCEPT ![r] =
           [op |-> op, entityName |-> entityName, id |-> id,
            data |-> request[r].body]]
    /\ UNCHANGED << outcome, result >>

\* repo.findAll() of either service.
ServiceFindAll(r, entityName) ==
    /\ found' = [found EXCEPT ![r] = findAll(entityName, em[r])]
    /\ Respond(r, "ok", findAll(entityName, em[r]))
    /\ UNCHANGED << pending, targetOwner >>

\* repo.findOne(id) of either service: the entity or null is the response.
ServiceFindOne(r, entityName, id) ==
    /\ found' = [found EXCEPT ![r] = findOne(entityName, em[r], id)]
    /\ targetOwner' = [targetOwner EXCEPT ![r] =
                          OwnerOf(entityName, ToDatabaseValue(id))]
    /\ Respond(r, "ok", findOne(entityName, em[r], id))
    /\ UNCHANGED pending

\* The lookup that opens update and remove: BadRequestException when the
\* lookup returns null, otherwise the change is made and flushed.
ServiceLookupThen(r, op, entityName, id) ==
    /\ found' = [found EXCEPT ![r] = findOne(entityName, em[r], id)]
    /\ targetOwner' = [targetOwner EXCEPT ![r] =
                          OwnerOf(entityName, ToDatabaseValue(id))]
    /\ IF findOne(entityName, em[r], id) = {}
       THEN /\ Respond(r, "BadRequest", {})
            /\ UNCHANGED pending
       ELSE AwaitFlush(r, op, entityName, ToDatabaseValue(id))

\* What every service method's first step requires and leaves alone.
HandlerFrame(r) ==
    /\ Turn(r)
    /\ UNCHANGED << skipTenantRoutes, abVars, writers, dbVars, started, request, reqUser, cls, em >>

OrganizationsService_create(r) ==
    /\ pc[r] = "handler" /\ request[r].route = "POST /organizations"
    /\ AwaitFlush(r, "create", "Organization", 0)
    /\ UNCHANGED << found, targetOwner >>
    /\ HandlerFrame(r)

OrganizationsService_findAll(r) ==
    /\ pc[r] = "handler" /\ request[r].route = "GET /organizations"
    /\ ServiceFindAll(r, "Organization")
    /\ HandlerFrame(r)

OrganizationsService_findOne(r) ==
    /\ pc[r] = "handler" /\ request[r].route = "GET /organizations/:id"
    /\ ServiceFindOne(r, "Organization", parseInt(request[r].params.id))
    /\ HandlerFrame(r)

OrganizationsService_update(r) ==
    /\ pc[r] = "handler" /\ request[r].route = "PATCH /organizations/:id"
    /\ ServiceLookupThen(r, "update", "Organization", parseInt(request[r].params.id))
    /\ HandlerFrame(r)

OrganizationsService_remove(r) ==
    /\ pc[r] = "handler" /\ request[r].route = "DELETE /organizations/:id"
    /\ ServiceLookupThen(r, "remove", "Organization", parseInt(request[r].params.id))
    /\ HandlerFrame(r)

UsersService_findAll(r) ==
    /\ pc[r] = "handler" /\ request[r].route = "GET /users"
    /\ ServiceFindAll(r, "User")
    /\ HandlerFrame(r)

\* GET /users/:id passes +id, GET /auth/profile passes user.id.
UsersService_findOne(r) ==
    /\ pc[r] = "handler"
    /\ \/ /\ request[r].route = "GET /users/:id"
          /\ ServiceFindOne(r, "User", parseInt(request[r].params.id))
       \/ /\ request[r].route = "GET /auth/profile"
          /\ ServiceFindOne(r, "User", reqUser[r].id)
    /\ HandlerFrame(r)

UsersService_update(r) ==
    /\ pc[r] = "handler" /\ request[r].route = "PATCH /users/:id"
    /\ ServiceLookupThen(r, "update", "User", parseInt(request[r].params.id))
    /\ HandlerFrame(r)

UsersService_remove(r) ==
    /\ pc[r] = "handler" /\ request[r].route = "DELETE /users/:id"
    /\ ServiceLookupThen(r, "remove", "User", parseInt(request[r].params.id))
    /\ HandlerFrame(r)

\* A creation that goes on without looking at the role lookup's result.
UsersService_createUnchecked(r) ==
    /\ pc[r] = "handler" /\ CreatesUser(request[r].route)
    /\ AwaitFlush(r, "create", "User", 0)
    /\ UNCHANGED << found, targetOwner >>
    /\ HandlerFrame(r)

\* UsersService.create (POST /users, and POST /auth/register through
\* AuthService.register): the default role is looked up, the password is
\* hashed, the Tenant and the User are created and await the flush.
UsersService_create(r) ==
    /\ pc[r] = "handler" /\ CreatesUser(request[r].route)
    /\ IF "user" \in roles
       THEN AwaitFlush(r, "create", "User", 0)
       ELSE /\ Respond(r, "InternalServerError", {})
            /\ UNCHANGED pending
    /\ UNCHANGED << found, targetOwner >>
    /\ HandlerFrame(r)

\* jwtService.sign(payload): the payload is serialized with JSON.stringify,
\* which throws a TypeError on a bigint.
JwtSign(payload) == IF payload.sub[1] = "bigint" THEN "throws" ELSE "token"

\* The response of a handler that ends with jwtService.sign(payload).
RespondWithToken(r, payload) ==
    IF JwtSign(payload) = "throws"
    THEN Respond(r, "InternalServerError", {})
    ELSE Respond(r, "ok", {[type |-> "Token", payload |-> payload]})

\* AuthService.login on POST /auth/login.
AuthService_login(r) ==
    /\ pc[r] = "handler" /\ request[r].route = "POST /auth/login"
    /\ RespondWithToken(r, [username |-> reqUser[r].username, sub |-> reqUser[r].id])
    /\ UNCHANGED << found, targetOwner, pending >>
    /\ HandlerFrame(r)

\* -------------------------------------------------------- lifecycle hooks
\* A normalization hook that does nothing.
TenantSubscriber_beforeCreateSkipped(entity) == entity

\* TenantSubscriber.beforeCreate (subscribed to Tenant):
\* args.entity.domain = args.entity.domain + '.' + tenantConfig.domain.
TenantSubscriber_beforeCreate(entity) ==
    [entity EXCEPT !.domain = @ \o << RootDomain >>]

\* A subscription to every tenant-owned type, User included.
getSubscribedEntitiesAll == tenantConfigEntities

\* TenantAwareSubscriber.getSubscribedEntities: the tenant-owned types
\* without User.
getSubscribedEntities == tenantConfigEntities \ {"User"}

\* A hook that stamps only entities that come without a tenant.
beforeCreateIfMissing(entity, store, r) ==
    IF entity.tenant = NoTenant THEN [entity EXCEPT !.tenant = ClsGet(store, r)]
    ELSE entity

\* TenantAwareSubscriber.beforeCreate in the async context of request r:
\* args.entity.tenant = this.cls.get('tenant').
beforeCreate(entity, store, r) == [entity EXCEPT !.tenant = ClsGet(store, r)]

\* -------------------------------------------------------------------- flush
\* A Tenant that is built but never handed to the EntityManager.
em_createDetached(table, key, tenant) == table

\* em.create(Tenant, new Tenant(domain)) in UsersService.create: the new
\* Tenant is managed by the EntityManager and inserted by the same flush
\* as the user that references it.
em_create(table, key, tenant) == table @@ (key :> tenant)

\* A creation whose DTO properties are spread over the computed ones.
repo_createSpreadLast(data, tenantKey) ==
    [username |-> data.name, email |-> data.email,
     password |-> bcrypt_hash(data.password),
     tenant |-> IF data.tenant = NoTenant THEN tenantKey ELSE data.tenant,
     role |-> IF data.role = "none" THEN "user" ELSE data.role]

\* this.repo.create({ ...rest, password: hashedPassword, role, tenant }) in
\* UsersService.create: the hashed password, the looked-up role 'user' and
\* the new tenant come after the spread of the DTO and override what the
\* body carries under these keys.
repo_create(data, tenantKey) ==
    [username |-> data.name, email |-> data.email,
     password |-> bcrypt_hash(data.password),
     tenant |-> tenantKey, role |-> "user"]

\* Unique columns that are not enforced.
UniqueConstraintUnenforced(user, tenant) == FALSE

\* The unique indexes of the schema (@Property({ unique: true }) on
\* User.username, User.email and Tenant.domain): inserting the rows of a
\* new user and its tenant violates one of them.
UniqueConstraintViolated(user, tenant) ==
    \/ \E i \in DOMAIN users : users[i].username = user.username
    \/ \E i \in DOMAIN users : users[i].email = user.email
    \/ \E t \in DOMAIN tenants : tenants[t].domain = tenant.domain

FlushFrame == UNCHANGED << skipTenantRoutes, abVars, started, request, reqUser, cls, em, found, targetOwner >>

\* em.flush() of a created Organization: the subscribed hooks run and
\* return, then the unit of work validates and inserts the row; a row
\* without tenant fails there (tenant is a required, NOT NULL foreign key)
\* and the request ends with the default 500 response.
FlushCreate(r) ==
    /\ pc[r] = "flush" /\ pending[r].op = "create"
    /\ pending[r].entityName = "Organization"
    /\ Turn(r)
    /\ LET entity == IF pending[r].entityName \in getSubscribedEntities
                     THEN beforeCreate(pending[r].data, cls, r)
                     ELSE pending[r].data
       IN  IF entity.tenant = NoTenant
           THEN /\ Respond(r, "InternalServerError", {})
                /\ UNCHANGED dbVars
           ELSE /\ orgs' = orgs @@ (nextOrgId :> [name |-> entity.name,
                                                 tenant |-> entity.tenant])
                /\ nextOrgId' = nextOrgId + 1
                /\ Respond(r, "ok", {[type |-> "Organization",
                                      id |-> BigIntType(nextOrgId),
                                      name |-> entity.name,
                                      tenant |-> entity.tenant]})
                /\ UNCHANGED << roles, users, tenants, nextUserId, nextTenantId >>
    /\ pending' = [pending EXCEPT ![r] = NoPending]
    /\ UNCHANGED writers
    /\ FlushFrame

\* em.flush() of UsersService.create: the hooks subscribed to Tenant and to
\* User run, then both rows are inserted in one transaction; tenant.domain
\* and user.username are unique and user.tenant is a NOT NULL foreign key.
\* POST /users answers with the user, AuthService.register signs a token
\* for it.
FlushCreateUser(r) ==
    /\ pc[r] = "flush" /\ pending[r].op = "create"
    /\ pending[r].entityName = "User"
    /\ Turn(r)
    /\ LET data == pending[r].data
           tenantKey == TenantKeys[nextTenantId]
           tenant == TenantSubscriber_beforeCreate([domain |-> << data.domain >>])
           created == repo_create(data, tenantKey)
           user == IF "User" \in getSubscribedEntities
                   THEN beforeCreate(created, cls, r) ELSE created
           duplicate == UniqueConstraintViolated(user, tenant)
       IN  IF duplicate \/ user.tenant = NoTenant
           THEN /\ Respond(r, "InternalServerError", {})
                /\ UNCHANGED dbVars
           ELSE /\ tenants' = em_create(tenants, tenantKey, tenant)
                /\ users' = users @@ (nextUserId :> user)
                /\ nextTenantId' = nextTenantId + 1
                /\ nextUserId' = nextUserId + 1
                /\ UNCHANGED << roles, orgs, nextOrgId >>
                /\ IF request[r].route = "POST /auth/register"
                   THEN RespondWithToken(r, [username |-> user.username,
                                             sub |-> BigIntType(nextUserId)])
                   ELSE Respond(r, "ok",
                            {[present |-> TRUE, type |-> "User",
                              id |-> BigIntType(nextUserId),
                              username |-> user.username,
                              password |-> user.password,
                              tenant |-> user.tenant,
                              role |-> [name |-> user.role,
                                        permissions |-> RolePermissions(user.role)]]})
    /\ pending' = [pending EXCEPT ![r] = NoPending]
    /\ UNCHANGED writers
    /\ FlushFrame

\* The entity as repo.assign(entity, dto) leaves it: every property the body
\* carries is assigned.
assign(entity, dto) ==
    LET named == IF dto.name = NoName THEN entity
                 ELSE IF entity.type = "User"
                      THEN [entity EXCEPT !.username = dto.name]
                      ELSE [entity EXCEPT !.name = dto.name]
        owned == IF dto.tenant = NoTenant THEN named
                 ELSE [named EXCEPT !.tenant = dto.tenant]
    IN  IF dto.password = NoName THEN owned
        ELSE [owned EXCEPT !.password = << "plain", dto.password >>]

\* The row an UPDATE of the changed properties leaves behind.
UpdatedRow(row, loaded, assigned) ==
    IF loaded.type = "User"
    THEN [row EXCEPT
            !.username = IF assigned.username # loaded.username
                         THEN assigned.username ELSE @,
            !.password = IF assigned.password # loaded.password
                         THEN assigned.password ELSE @,
            !.tenant = IF assigned.tenant # loaded.tenant THEN assigned.tenant ELSE @]
    ELSE [row EXCEPT
            !.name = IF assigned.name # loaded.name THEN assigned.name ELSE @,
            !.tenant = IF assigned.tenant # loaded.tenant THEN assigned.tenant ELSE @]

\* em.flush() after repo.assign: the changed properties are written to the
\* row; user.username is unique, so a duplicate makes the flush fail.
FlushUpdate(r) ==
    /\ pc[r] = "flush" /\ pending[r].op = "update"
    /\ Turn(r)
    /\ LET loaded == CHOOSE e \in found[r] : TRUE
           assigned == assign(loaded, pending[r].data)
           id == pending[r].id
           isUser == pending[r].entityName = "User"
           duplicate == /\ isUser
                        /\ assigned.username # loaded.username
                        /\ \E i \in DOMAIN users \ {id} :
                               users[i].username = assigned.username
       IN  IF duplicate
           THEN /\ Respond(r, "InternalServerError", {})
                /\ UNCHANGED << dbVars, writers >>
           ELSE /\ writers' = writers \cup {reqUser[r].tenant}
                /\ users' = IF isUser /\ id \in DOMAIN users
                            THEN [users EXCEPT ![id] = UpdatedRow(@, loaded, assigned)]
                            ELSE users
                /\ orgs' = IF ~isUser /\ id \in DOMAIN orgs
                           THEN [orgs EXCEPT ![id] = UpdatedRow(@, loaded, assigned)]
                           ELSE orgs
                /\ Respond(r, "ok", {assigned})
                /\ UNCHANGED << roles, nextOrgId, nextUserId, nextTenantId, tenants >>
    /\ pending' = [pending EXCEPT ![r] = NoPending]
    /\ FlushFrame

\* em.flush() after em.remove(entity): the row is deleted.
FlushRemove(r) ==
    /\ pc[r] = "flush" /\ pending[r].op = "remove"
    /\ Turn(r)
    /\ LET id == pending[r].id
           isUser == pending[r].entityName = "User"
       IN  /\ users' = IF isUser
                       THEN [i \in DOMAIN users \ {id} |-> users[i]] ELSE users
           /\ orgs' = IF ~isUser
                      THEN [i \in DOMAIN orgs \ {id} |-> orgs[i]] ELSE orgs
    /\ Respond(r, "ok", found[r])
    /\ writers' = writers \cup {reqUser[r].tenant}
    /\ pending' = [pending EXCEPT ![r] = NoPending]
    /\ UNCHANGED << roles, nextOrgId, nextUserId, nextTenantId, tenants >>
    /\ FlushFrame

\* A response after which the request's EntityManager fork lives on.
CompleteKeepingContext(r) ==
    /\ pc[r] = "done"
    /\ Turn(r)
    /\ pc' = [pc EXCEPT ![r] = "idle"]
    /\ request' = [request EXCEPT ![r] = NoRequest]
    /\ reqUser' = [reqUser EXCEPT ![r] = NoUser]
    /\ cls' = [cls EXCEPT ![r] = EmptyStore]
    /\ found' = [found EXCEPT ![r] = {}]
    /\ pending' = [pending EXCEPT ![r] = NoPending]
    /\ outcome' = [outcome EXCEPT ![r] = "none"]
    /\ result' = [result EXCEPT ![r] = {}]
    /\ targetOwner' = [targetOwner EXCEPT ![r] = "none"]
    /\ UNCHANGED << skipTenantRoutes, abVars, writers, dbVars, started, em >>

\* The response is sent: the request's CLS context and EntityManager fork
\* are gone with it.
Complete(r) ==
    /\ pc[r] = "done"
    /\ Turn(r)
    /\ pc' = [pc EXCEPT ![r] = "idle"]
    /\ request' = [request EXCEPT ![r] = NoRequest]
    /\ reqUser' = [reqUser EXCEPT ![r] = NoUser]
    /\ cls' = [cls EXCEPT ![r] = EmptyStore]
    /\ em' = [em EXCEPT ![r] = NoFilter]
    /\ found' = [found EXCEPT ![r] = {}]
    /\ pending' = [pending EXCEPT ![r] = NoPending]
    /\ outcome' = [outcome EXCEPT ![r] = "none"]
    /\ result' = [result EXCEPT ![r] = {}]
    /\ targetOwner' = [targetOwner EXCEPT ![r] = "none"]
    /\ UNCHANGED << skipTenantRoutes, abVars, writers, dbVars, started >>

Next ==
    \E r \in Req :
        \/ Arrive(r)
        \/ JwtAuthGuard_canActivate(r)
        \/ JwtStrategy_validate(r)
        \/ PoliciesGuard_canActivate(r)
        \/ TenantInterceptor_intercept(r)
        \/ ValidationPipe_transform(r)
        \/ OrganizationsService_create(r)
        \/ OrganizationsService_findAll(r)
        \/ OrganizationsService_findOne(r)
        \/ OrganizationsService_update(r)
        \/ OrganizationsService_remove(r)
        \/ UsersService_findAll(r)
        \/ UsersService_findOne(r)
        \/ UsersService_update(r)
        \/ UsersService_remove(r)
        \/ UsersService_create(r)
        \/ LocalAuthGuard_canActivate(r)
        \/ AuthService_login(r)
        \/ FlushCreate(r)
        \/ FlushCreateUser(r)
        \/ FlushUpdate(r)
        \/ FlushRemove(r)
        \/ Complete(r)

Spec == Init /\ [][Next]_vars

\* The application with @SkipTenant() applied to the two read routes of the
\* organizations controller.
InitSkipTenant ==
    /\ InitPipeline
    /\ roles = RoleNames
    /\ skipTenantRoutes = {"GET /organizations", "GET /organizations/:id"}
    /\ abPc = "off"
    /\ abUser = NoUser
    /\ abRequest = NoRequest
    /\ abHandlers = << >>
    /\ abClassHandlers = << >>
    /\ abAbility = << >>
    /\ abRead = FALSE
    /\ abGuard = FALSE

SpecSkipTenant == InitSkipTenant /\ [][Next]_vars

\* The application on a database whose role table may lack the default
\* role 'user' (the roles are rows inserted by a data migration, not part
\* of the schema).
InitRoleTable ==
    /\ InitPipeline
    /\ roles \in {RoleNames, RoleNames \ {"user"}}
    /\ skipTenantRoutes = {}
    /\ abPc = "off"
    /\ abUser = NoUser
    /\ abRequest = NoRequest
    /\ abHandlers = << >>
    /\ abClassHandlers = << >>
    /\ abAbility = << >>
    /\ abRead = FALSE
    /\ abGuard = FALSE

SpecRoleTable == InitRoleTable /\ [][Next]_vars

\* The filter installer and the stamping hook taken as components: the
\* first request stands at TenantInterceptor.intercept or at the flush of a
\* created Organization with every value the component's inputs admit
\* (request.user absent, a user without tenant, a user of T1; a CLS store
\* with or without a tenant), whatever the guards before it would have done.
InitComponent ==
    /\ roles = RoleNames
    /\ users = InitialUsers
    /\ tenants = InitialTenants
    /\ nextUserId = 3
    /\ nextTenantId = 3
    /\ orgs = InitialOrgs
    /\ nextOrgId = 3
    /\ started = 1
    /\ \E at \in {"intercept", "flush"},
          route \in { x \in Routes : ~IsPublic(x) },
          user \in {NoUser, Hydrate("User", 1),
                    [Hydrate("User", 1) EXCEPT !.tenant = NoTenant]},
          store \in {EmptyStore, [tenant |-> "T1", writes |-> 1]},
          body \in Bodies("POST /organizations") :
          /\ at = "flush" => route = "POST /organizations"
          /\ at = "intercept" => body.name = "c" /\ body.tenant = "none"
          /\ pc = [r \in Req |-> IF r = 1 THEN at ELSE "idle"]
          /\ request = [r \in Req |->
                IF r = 1
                THEN [route |-> route, sub |-> 0,
                      params |-> [id |-> IF HasParam(route) THEN 1 ELSE 0],
                      body |-> IF at = "flush" THEN body ELSE NoBody]
                ELSE NoRequest]
          /\ reqUser = [r \in Req |-> IF r = 1 THEN user ELSE NoUser]
          /\ cls = [r \in Req |-> IF r = 1 THEN store ELSE EmptyStore]
          /\ pending = [r \in Req |->
                IF r = 1 /\ at = "flush"
                THEN [op |-> "create", entityName |-> "Organization", id |-> 0,
                      data |-> body]
                ELSE NoPending]
    /\ em = [c \in Req \cup {Root} |-> NoFilter]
    /\ found = [r \in Req |-> {}]
    /\ outcome = [r \in Req |-> "none"]
    /\ result = [r \in Req |-> {}]
    /\ targetOwner = [r \in Req |-> "none"]
    /\ writers = {}
    /\ skipTenantRoutes = {}
    /\ abPc = "off"
    /\ abUser = NoUser
    /\ abRequest = NoRequest
    /\ abHandlers = << >>
    /\ abClassHandlers = << >>
    /\ abAbility = << >>
    /\ abRead = FALSE
    /\ abGuard = FALSE

SpecComponent == InitComponent /\ [][Next]_vars

\* ------------------------------------------- authorization in isolation
\* Bounds on the inputs of the ability factory and of the policies guard.
MaxPermissions == 2
MaxHandlers == 2

\* Values of the Actions and Subjects enums used by the policies.
Actions == {"manage", "readAny", "readOwn"}
Subjects == {"User", "Organization"}

SeqsUpTo(S, n) == UNION { [1..k -> S] : k \in 0..n }

\* Any principal with any role permissions, any id in the path, any list of
\* policy handlers (functions or objects).
InitAbility ==
    /\ InitPipeline
    /\ roles = RoleNames
    /\ skipTenantRoutes = {}
    /\ abPc = "input"
    /\ \E id \in {1, 2},
          permissions \in SeqsUpTo([action : Actions, subject : Subjects],
                                   MaxPermissions) :
          abUser = [present |-> TRUE, type |-> "User", id |-> BigIntType(id),
                    username |-> "a", password |-> bcrypt_hash("secret0"),
                    tenant |-> "T1",
                    role |-> [name |-> "custom", permissions |-> permissions]]
    /\ \E id \in {1, 2} :
          abRequest = [route |-> "GET /users/:id", sub |-> 0,
                       params |-> [id |-> id],
                       body |-> NoBody]
    /\ abHandlers \in SeqsUpTo(
           [kind : {"function", "object"}, policy : {"permit", "deny"}]
               \cup {Handler("ReadUserPolicy")}, MaxHandlers)
    /\ abClassHandlers \in {<< >>, << Handler("permit") >>, << Handler("deny") >>}
    /\ abAbility = << >>
    /\ abRead = FALSE
    /\ abGuard = FALSE

AbilityFrame ==
    UNCHANGED << users, orgs, nextOrgId, started, pc, request, reqUser, cls, em,
                 found, pending, outcome, result, targetOwner, writers,
                 skipTenantRoutes, roles, tenants, nextUserId, nextTenantId, abUser,
                 abRequest, abHandlers, abClassHandlers >>

\* The guard builds the ability of the principal.
BuildAbility ==
    /\ abPc = "input"
    /\ abAbility' = createForUser(abUser)
    /\ abPc' = "built"
    /\ UNCHANGED << abRead, abGuard >>
    /\ AbilityFrame

\* The read-user policy is asked about the request.
AskReadUserPolicy ==
    /\ abPc = "built"
    /\ abRead' = ReadUserPolicy_handle(abAbility, abUser, abRequest)
    /\ abPc' = "asked"
    /\ UNCHANGED << abAbility, abGuard >>
    /\ AbilityFrame

\* The guard decides on the declared handlers.
RunPoliciesGuard ==
    /\ abPc = "asked"
    /\ abGuard' = canActivate(reflector_get(abHandlers, abClassHandlers),
                              abUser, abRequest)
    /\ abPc' = "decided"
    /\ UNCHANGED << abAbility, abRead >>
    /\ AbilityFrame

NextAbility == BuildAbility \/ AskReadUserPolicy \/ RunPoliciesGuard

SpecAbility == InitAbility /\ [][NextAbility]_vars

\* ------------------------------------------------------ tenant isolation
\* Request r is authenticated on a route that is neither public nor exempt
\* from tenant scoping.
ScopedRequest(r) ==
    /\ reqUser[r].present
    /\ ~IsPublic(request[r].route)
    /\ ~ShouldSkipTenant(request[r].route)

\* C1: in a scoped request every record a query on User or Organization
\* returned (findAll, findOne, the lookups of update and remove) belongs to
\* the tenant of the request's principal, whatever id the request named.
C1_QueriesReturnOwnTenant ==
    \A r \in Req :
        ScopedRequest(r) => \A e \in found[r] : e.tenant = reqUser[r].tenant

\* A listing returned records while another tenant's organizations exist.
C1_Witness ==
    \E r \in Req :
        /\ ScopedRequest(r) /\ pc[r] = "done"
        /\ request[r].route = "GET /organizations"
        /\ found[r] # {}
        /\ \E i \in DOMAIN orgs : orgs[i].tenant # reqUser[r].tenant

\* C2: an Organization created in an authenticated request is persisted with
\* the tenant of the principal, whether the body names no tenant or another
\* tenant; a missing tenant never fails such a request.
C2_CreatedOrganizationStamped ==
    \A r \in Req :
        (pc[r] = "done" /\ request[r].route = "POST /organizations"
            /\ reqUser[r].present) =>
            /\ outcome[r] \in {"ok", "BadRequest"}
            /\ outcome[r] = "ok" =>
                  /\ result[r] # {}
                  /\ \A e \in result[r] :
                        /\ e.tenant = reqUser[r].tenant
                        /\ OwnerOf("Organization", ToDatabaseValue(e.id))
                               = reqUser[r].tenant

\* A principal of T1 created an organization with a body that names T2.
C2_Witness ==
    \E r \in Req :
        /\ pc[r] = "done" /\ request[r].route = "POST /organizations"
        /\ outcome[r] = "ok"
        /\ reqUser[r].tenant = "T1"
        /\ request[r].body.tenant = "T2"

\* C3: while requests of different tenants are in flight, a read of the CLS
\* tenant on behalf of a request returns that request's own tenant; so does
\* the read the stamping hook makes for a creation awaiting its flush.
C3_ClsReadIsOwnTenant ==
    \A r \in Req :
        (reqUser[r].present /\ ~IsPublic(request[r].route)) =>
            /\ ClsGet(cls, r) = reqUser[r].tenant
            /\ (pc[r] = "flush" /\ pending[r].op = "create") =>
                  beforeCreate(pending[r].data, cls, r).tenant = reqUser[r].tenant

\* Two creations of principals of different tenants await their flush.
C3_Witness ==
    \E r, q \in Req :
        /\ r # q
        /\ pc[r] = "flush" /\ pending[r].op = "create"
        /\ pc[q] = "flush" /\ pending[q].op = "create"
        /\ reqUser[r].tenant = "T1" /\ reqUser[q].tenant = "T2"

\* C4: once the interceptor has run for a scoped request, the filter of that
\* request's EntityManager context admits, for each tenant-owned type,
\* exactly the rows of the principal's tenant, whatever other requests do
\* through the same injected EntityManager.
C4_FilterIsRequestScoped ==
    \A r \in Req :
        (ScopedRequest(r) /\ pc[r] \in {"pipe", "handler", "flush"}) =>
            \A entityName \in tenantConfigEntities, t \in TenantIds :
                FilterAllows(em[r], entityName, [tenant |-> t])
                    <=> t = reqUser[r].tenant

\* Two scoped requests of different tenants are past the interceptor.
C4_Witness ==
    \E r, q \in Req :
        /\ r # q
        /\ ScopedRequest(r) /\ ScopedRequest(q)
        /\ pc[r] \in {"handler", "flush"} /\ pc[q] \in {"handler", "flush"}
        /\ reqUser[r].tenant # reqUser[q].tenant

\* C5: from the resolution of the principal until the request completes, the
\* CLS tenant is the principal's tenant, it has been written exactly once,
\* and no step changes it; the store of a request changes only when the
\* request arrives, when its principal is resolved and when it completes.
C5_ClsTenantWrittenOnce ==
    [][\A r \in Req :
          /\ (reqUser[r].present /\ ~IsPublic(request[r].route)
                /\ pc'[r] # "idle") =>
                /\ cls'[r] = cls[r]
                /\ cls[r].writes = 1
                /\ cls[r].tenant = reqUser[r].tenant
          /\ cls'[r] # cls[r] => pc[r] \in {"idle", "validate", "done"}
          /\ cls'[r].writes > cls[r].writes =>
                (pc[r] = "validate" /\ reqUser'[r].present)]_vars

\* An authenticated request went through every step down to its flush while
\* another request had its principal resolved.
C5_Witness ==
    \E r, q \in Req :
        /\ r # q
        /\ pc[r] = "done" /\ outcome[r] = "ok"
        /\ request[r].route = "POST /organizations"
        /\ reqUser[r].present /\ reqUser[q].present
        /\ reqUser[r].tenant # reqUser[q].tenant

\* What findOne, update and remove answer for an id no row has.
AbsentResponse(route) ==
    IF route \in {"GET /organizations/:id", "GET /users/:id"}
    THEN << "ok", {} >>
    ELSE << "BadRequest", {} >>

\* C6: for findOne, update and remove by id, a request whose id names a row
\* of another tenant ends exactly as a request whose id names no row: null
\* for findOne, the same BadRequestException for update and remove.
C6_ForeignIdLooksAbsent ==
    \A r \in Req :
        (/\ pc[r] = "done" /\ ScopedRequest(r) /\ HasParam(request[r].route)
         /\ targetOwner[r] \notin {"none", reqUser[r].tenant}) =>
            << outcome[r], result[r] >> = AbsentResponse(request[r].route)

\* An update or remove named a row that another tenant owns.
C6_Witness ==
    \E r \in Req :
        /\ pc[r] = "done" /\ ScopedRequest(r)
        /\ request[r].route \in {"PATCH /organizations/:id", "DELETE /users/:id"}
        /\ targetOwner[r] \in TenantIds \ {reqUser[r].tenant}

Grants(action) ==
    \E i \in 1..Len(abUser.role.permissions) :
        /\ abUser.role.permissions[i].subject = "User"
        /\ abUser.role.permissions[i].action \in {action, "manage"}

\* C8: the read-user policy permits a principal that may read only its own
\* user exactly when the id in the path is the principal's id, and permits
\* a principal that may read any user for every id.
C8_ReadOwnPermitsOwnId ==
    abPc \in {"asked", "decided"} =>
        /\ Grants("readAny") => abRead
        /\ (Grants("readOwn") /\ ~Grants("readAny")) =>
              (abRead <=> ToDatabaseValue(abUser.id) = abRequest.params.id)

\* What a declared handler returns, whatever its form: the fixed verdict of
\* a permitting or denying policy, or the verdict of the read-user policy.
Verdict(handler) ==
    CASE handler.policy = "permit" -> TRUE
      [] handler.policy = "deny" -> FALSE
      [] OTHER -> abRead

\* C9: the policies guard permits exactly when every declared policy
\* returns true, whether the policy is a function or an object; it permits
\* when no policy is declared and denies as soon as one policy returns false.
C9_GuardPermitsIffEveryPolicy ==
    abPc = "decided" =>
        /\ abGuard <=> \A i \in 1..Len(abHandlers) : Verdict(abHandlers[i])
        /\ abHandlers = << >> => abGuard
        /\ (\E i \in 1..Len(abHandlers) : ~Verdict(abHandlers[i])) => ~abGuard

\* The guard denied two handlers of different forms of which one permits.
C9_Witness ==
    /\ abPc = "decided"
    /\ Len(abHandlers) = 2
    /\ abHandlers[1].kind # abHandlers[2].kind
    /\ Verdict(abHandlers[1]) /\ ~Verdict(abHandlers[2])
    /\ ~abGuard

Rejections ==
    {"Unauthorized", "Forbidden", "InternalServerError: User not found",
     "InternalServerError: Tenant not found"}

C12_SkipTenantRoute ==
    \A r \in Req :
        request[r].route \in skipTenantRoutes =>
            /\ em[r].entities = {} /\ em[r].installs = 0
            /\ pc[r] \in {"policies", "intercept", "pipe", "handler", "flush"}
                  => reqUser[r].present
            /\ (pc[r] = "done" /\ ~reqUser[r].present) =>
                  (outcome[r] = "Unauthorized" /\ found[r] = {} /\ result[r] = {})
            /\ (pc[r] = "done" /\ outcome[r] = "ok"
                  /\ request[r].route = "GET /organizations") =>
                  found[r] = { Hydrate("Organization", i) : i \in DOMAIN orgs }

\* A principal of T1 listed organizations on the skip-tenant route and got
\* an organization of T2.
C12_Witness ==
    \E r \in Req :
        /\ request[r].route \in skipTenantRoutes
        /\ pc[r] = "done" /\ outcome[r] = "ok"
        /\ reqUser[r].tenant = "T1"
        /\ \E e \in found[r] : e.tenant = "T2"

\* C13: every Tenant persisted by a user creation with raw label L has the
\* stored domain L + '.' + RootDomain: the normalization hook is applied
\* exactly once, and a stored domain never changes afterwards.
C13_DomainNormalizedOnce ==
    [][/\ \A t \in DOMAIN tenants' \ DOMAIN tenants :
             \E r \in Req :
                 /\ pc[r] = "flush" /\ pc'[r] = "done"
                 /\ CreatesUser(request[r].route)
                 /\ request[r].body.domain \in Labels
                 /\ tenants'[t].domain = << request[r].body.domain, RootDomain >>
       /\ \A t \in DOMAIN tenants :
             t \in DOMAIN tenants' /\ tenants'[t] = tenants[t]]_vars

\* A registration with the raw label 'acme' persisted its tenant.
C13_Witness ==
    /\ "T3" \in DOMAIN tenants
    /\ tenants["T3"].domain = << "acme", RootDomain >>

\* C14: on a scoped route that declares policies, the tenant filter is
\* already installed in the request's context when the policy evaluator
\* runs.
C14_FilterInstalledBeforePolicies ==
    \A r \in Req :
        (pc[r] = "policies" /\ UsesPoliciesGuard(request[r].route)
            /\ ~IsPublic(request[r].route)
            /\ ~ShouldSkipTenant(request[r].route)) =>
            (em[r].installs = 1 /\ em[r].tenantId = reqUser[r].tenant)

\* C15: when the token's subject matches no existing user, principal
\* resolution ends the request as Unauthorized: the CLS store is not
\* written, no filter is installed, no policy is evaluated and the handler
\* does not run.
C15_UnknownSubjectUnauthorized ==
    [][\A r \in Req :
          (pc[r] = "validate" /\ pc'[r] # "validate"
              /\ request[r].sub \notin DOMAIN users) =>
              /\ pc'[r] = "done" /\ outcome'[r] = "Unauthorized"
              /\ ~reqUser'[r].present
              /\ cls'[r].writes = 0 /\ ClsGet(cls', r) = NoTenant
              /\ em'[r].installs = 0 /\ em'[r].entities = {}
              /\ found'[r] = {} /\ result'[r] = {}
              /\ pending'[r] = NoPending
              /\ dbVars' = dbVars]_vars

\* A request with a token for a user that does not exist was rejected.
C15_Witness ==
    \E r \in Req :
        /\ pc[r] = "done" /\ outcome[r] = "Unauthorized"
        /\ request[r].sub # 0 /\ request[r].sub \notin DOMAIN users
        /\ ~IsPublic(request[r].route)

\* The error class of the specification under which an outcome reaches the
\* caller: a 401 is an authentication failure; the interceptor's 500
\* 'Tenant not found' reports the missing tenant context; every other 500
\* is a plain server error.
ErrorClass(how) ==
    CASE how = "Unauthorized" -> "Unauthenticated"
      [] how = "Forbidden" -> "Forbidden"
      [] how = "InternalServerError: Tenant not found" -> "MissingTenantContext"
      [] how \in {"InternalServerError", "InternalServerError: User not found"}
            -> "InternalServerError"
      [] OTHER -> how

\* What a failure of the filter installer in request r leaves behind: the
\* request is over, no filter and no filter parameter in its context.
InstallerFailed(r) ==
    /\ pc'[r] = "done"
    /\ em'[r].entities = {} /\ em'[r].tenantId = NoTenant /\ em'[r].installs = 0
    /\ found'[r] = {} /\ result'[r] = {} /\ pending'[r] = NoPending
    /\ dbVars' = dbVars

\* C16: on a route that is neither public nor skip-tenant the filter
\* installer fails with an Unauthenticated-class error when no user is
\* attached to the request and with MissingTenantContext when the attached
\* user has no tenant; either way no filter is installed, no parameter is
\* set and the handler is not invoked.
C16_InstallerFailures ==
    [][\A r \in Req :
          (pc[r] = "intercept" /\ pc'[r] # "intercept"
              /\ request[r].route \notin {"POST /auth/login", "POST /auth/register"}
              /\ request[r].route \notin skipTenantRoutes) =>
              /\ ~reqUser[r].present =>
                    (InstallerFailed(r)
                        /\ ErrorClass(outcome'[r]) = "Unauthenticated")
              /\ (reqUser[r].present /\ reqUser[r].tenant = NoTenant) =>
                    (InstallerFailed(r)
                        /\ ErrorClass(outcome'[r]) = "MissingTenantContext")]_vars

\* C17: when the stamping hook runs for a new tenant-owned entity while the
\* CLS store holds no tenant, the creation fails with MissingTenantContext
\* and nothing is persisted.
C17_HookFailsWithoutTenant ==
    [][\A r \in Req :
          (pc[r] = "flush" /\ pc'[r] # "flush"
              /\ pending[r].op = "create"
              /\ pending[r].entityName \in {"Organization"}
              /\ cls[r].tenant = NoTenant) =>
              /\ ErrorClass(outcome'[r]) = "MissingTenantContext"
              /\ dbVars' = dbVars]_vars

\* C18: in a request to a route that is neither public nor skip-tenant,
\* every data access (validation pipe, handler, flush) happens with the
\* principal resolved and the tenant filter installed for the principal's
\* tenant; the filter is installed exactly once and its registration and
\* parameter stay as installed until the request is over.
C18_FilterInstalledBeforeDataAccess ==
    /\ [](\A r \in Req :
            (request[r].route \in Routes
                /\ request[r].route \notin {"POST /auth/login", "POST /auth/register"}
                /\ request[r].route \notin skipTenantRoutes) =>
                /\ (pc[r] \in {"pipe", "handler", "flush"}
                       \/ found[r] # {} \/ result[r] # {}) =>
                       /\ reqUser[r].present
                       /\ em[r].installs = 1
                       /\ em[r].entities = {"User", "Organization"}
                       /\ em[r].tenantId = reqUser[r].tenant
                /\ em[r].installs <= 1)
    /\ [][\A r \in Req :
            (em[r].installs = 1 /\ pc'[r] # "idle") => em'[r] = em[r]]_vars

\* A listing on a scoped route was answered under the installed filter.
C18_Witness ==
    \E r \in Req :
        /\ request[r].route = "GET /organizations"
        /\ pc[r] = "done" /\ outcome[r] = "ok" /\ found[r] # {}
        /\ em[r].installs = 1 /\ em[r].tenantId = "T1"

\* C19: a User created by UsersService.create, through registration or
\* through POST /users inside an authenticated request, is persisted with
\* the Tenant created in the same operation from the supplied domain: never
\* with the caller's tenant and never with a tenant that existed before.
C19_CreatedUserOwnsNewTenant ==
    [][\A i \in DOMAIN users' \ DOMAIN users :
          \E r \in Req :
              /\ pc[r] = "flush" /\ pc'[r] = "done"
              /\ request[r].route \in {"POST /users", "POST /auth/register"}
              /\ users'[i].tenant \notin DOMAIN tenants
              /\ users'[i].tenant \in DOMAIN tenants'
              /\ users'[i].tenant # reqUser[r].tenant
              /\ users'[i].tenant # cls[r].tenant
              /\ tenants'[users'[i].tenant].domain[1] = request[r].body.domain]_vars

\* A principal of T1 created a user through POST /users; the user belongs
\* to the tenant created with it.
C19_Witness ==
    \E r \in Req :
        /\ request[r].route = "POST /users"
        /\ pc[r] = "done" /\ outcome[r] = "ok"
        /\ reqUser[r].tenant = "T1"
        /\ \E u \in result[r] : u.tenant = "T3" /\ "T3" \in DOMAIN tenants

\* C20: every persisted User and every persisted Organization references a
\* tenant, and the tenant exists.
C20_TenantReferencesExist ==
    /\ \A i \in DOMAIN users :
          users[i].tenant # NoTenant /\ users[i].tenant \in DOMAIN tenants
    /\ \A i \in DOMAIN orgs :
          orgs[i].tenant # NoTenant /\ orgs[i].tenant \in DOMAIN tenants

\* A user creation and an organization creation have both been persisted.
C20_Witness ==
    /\ Cardinality(DOMAIN users) + Cardinality(DOMAIN orgs) > 4
    /\ \E i \in DOMAIN users : users[i].tenant \notin DOMAIN InitialTenants
    /\ \E i \in DOMAIN orgs : i \notin DOMAIN InitialOrgs

\* C21: under any interleaving of registrations and user creations, no two
\* stored users share a username or an e-mail address and no two stored
\* tenants share a domain.
C21_UniqueUsersAndDomains ==
    /\ \A i, j \in DOMAIN users :
          i # j => /\ users[i].username # users[j].username
                   /\ users[i].email # users[j].email
    /\ \A t, u \in DOMAIN tenants :
          t # u => tenants[t].domain # tenants[u].domain

\* Two registrations with the same username both passed validation; one
\* has been flushed while the other still awaits its flush.
C21_Witness ==
    \E r, q \in Req :
        /\ r # q
        /\ request[r].route = "POST /auth/register"
        /\ request[q].route = "POST /auth/register"
        /\ request[r].body.name = "c" /\ request[q].body.name = "c"
        /\ pc[r] = "done" /\ pc[q] = "flush"
        /\ \E i \in DOMAIN users : users[i].username = "c"

\* C22: a uniqueness violation on username, e-mail or tenant domain found
\* at flush time reaches the caller as a client input error and leaves
\* neither the user nor the tenant of the losing creation behind.
C22_DuplicateIsClientError ==
    [][\A r \in Req :
          (pc[r] = "flush" /\ pc'[r] # "flush"
              /\ pending[r].op = "create" /\ pending[r].entityName = "User"
              /\ \/ \E i \in DOMAIN users :
                       \/ users[i].username = pending[r].data.name
                       \/ users[i].email = pending[r].data.email
                 \/ \E t \in DOMAIN tenants :
                       tenants[t].domain = << pending[r].data.domain, RootDomain >>) =>
              /\ dbVars' = dbVars
              /\ ErrorClass(outcome'[r]) \in {"BadRequest", "Conflict"}]_vars

\* C23: when the role table has no role named 'user', UsersService.create
\* ends with InternalServerErrorException before any Tenant or User is
\* created, and the stored state stays as it was.
C23_MissingDefaultRole ==
    /\ []("user" \notin roles =>
             /\ DOMAIN users \subseteq DOMAIN InitialUsers
             /\ DOMAIN tenants = DOMAIN InitialTenants
             /\ nextUserId = 3 /\ nextTenantId = 3)
    /\ [][\A r \in Req :
             (pc[r] = "handler" /\ pc'[r] # "handler"
                 /\ request[r].route \in {"POST /users", "POST /auth/register"}
                 /\ "user" \notin roles) =>
                 /\ pc'[r] = "done"
                 /\ outcome'[r] = "InternalServerError"
                 /\ pending'[r] = NoPending /\ result'[r] = {}
                 /\ dbVars' = dbVars]_vars

\* A validated registration failed for want of the default role.
C23_Witness ==
    \E r \in Req :
        /\ "user" \notin roles
        /\ request[r].route = "POST /auth/register"
        /\ request[r].body.name \in Names
        /\ pc[r] = "done" /\ outcome[r] = "InternalServerError"

\* C24: no two stored organizations share a name.
C24_OrganizationNamesUnique ==
    \A i, j \in DOMAIN orgs : i # j => orgs[i].name # orgs[j].name

\* C25: policies attached with CheckPolicies to the controller class are
\* enforced like those attached to the route handler: the guard denies the
\* request whenever a class-level policy returns false.
C25_ClassLevelPoliciesEnforced ==
    (abPc = "decided" /\ \E i \in 1..Len(abClassHandlers) :
                             ~Verdict(abClassHandlers[i])) => ~abGuard

\* C26: no tenant filter state outlives its request: the global
\* EntityManager and a finished request's context hold no filter, the
\* principal lookup of every request runs unfiltered, a request to a public
\* route stays unfiltered, and a filter parameter in a request's context is
\* never another principal's tenant id.
C26_FilterDiesWithRequest ==
    /\ em[Root] = NoFilter
    /\ \A r \in Req :
          /\ pc[r] = "idle" => (em[r] = NoFilter /\ cls[r] = EmptyStore)
          /\ pc[r] \in {"guard", "validate", "local", "policies"} => em[r] = NoFilter
          /\ request[r].route \in {"POST /auth/login", "POST /auth/register"}
                => em[r] = NoFilter
          /\ em[r].tenantId \in {NoTenant, reqUser[r].tenant}

\* After a principal of T1 had a change flushed, the second request, of a
\* principal of T2, was answered with T2's rows only.
C26_Witness ==
    /\ started = 2 /\ "T1" \in writers
    /\ pc[1] = "done" /\ pc[2] = "idle"
    /\ reqUser[1].tenant = "T2" /\ outcome[1] = "ok"
    /\ found[1] # {} /\ \A e \in found[1] : e.tenant = "T2"
    /\ em[1].tenantId = "T2"

\* C27: a stored record's tenant reference never changes: an update
\* leaves it as it was, whatever the request body carries.
C27_UpdateKeepsOwner ==
    [][/\ \A i \in DOMAIN orgs \cap DOMAIN orgs' : orgs'[i].tenant = orgs[i].tenant
       /\ \A i \in DOMAIN users \cap DOMAIN users' :
             users'[i].tenant = users[i].tenant]_vars

\* C28: every user created by UsersService.create has the role 'user' and
\* belongs to a tenant that did not exist before, whatever role or tenant
\* the request body carries.
C28_CreatedUserHasDefaultRole ==
    [][\A i \in DOMAIN users' \ DOMAIN users :
          /\ users'[i].role = "user"
          /\ users'[i].tenant \notin DOMAIN tenants
          /\ \E r \in Req :
                /\ pc[r] = "flush" /\ pc'[r] = "done"
                /\ request[r].route \in {"POST /users", "POST /auth/register"}
                /\ users'[i].username = request[r].body.name]_vars

\* A user was created from a body that carries role 'admin' and tenant T2.
C28_Witness ==
    \E r \in Req :
        /\ request[r].route = "POST /users"
        /\ request[r].body.role = "admin" /\ request[r].body.tenant = "T2"
        /\ pc[r] = "done" /\ outcome[r] = "ok"
        /\ \E u \in result[r] : u.role.name = "user" /\ u.tenant \notin {"T1", "T2"}

\* C29: AuthService.login and AuthService.register answer with an access
\* token whose subject resolves, through JwtStrategy.validate, to the very
\* user it was issued for.
C29_TokenRoundTrip ==
    [][\A r \in Req :
          (pc[r] # "done" /\ pc'[r] = "done"
              /\ \/ request[r].route = "POST /auth/login" /\ pc[r] = "handler"
                 \/ request[r].route = "POST /auth/register" /\ users' # users) =>
              /\ outcome'[r] = "ok"
              /\ \E token \in result'[r] :
                    /\ token.type = "Token"
                    /\ ToDatabaseValue(token.payload.sub) \in DOMAIN users'
                    /\ users'[ToDatabaseValue(token.payload.sub)].username
                          = token.payload.username]_vars

\* C30: every stored password is a bcrypt hash, never the plaintext a
\* caller supplied.
C30_PasswordsAreHashed ==
    \A i \in DOMAIN users : users[i].password[1] = "bcrypt"

====
